---- MODULE Spec2Model ----
(***************************************************************************)
(* syncr: a per-machine folder-mirroring orchestrator.                     *)
(*                                                                         *)
(* The model follows src/ecosystem.config.js (backup.ts: runBackup,        *)
(* backupSource, the special modes), src/src/config.ts (paths, validator,  *)
(* loadConfig, initializeConfig, and the file logger appended to it),      *)
(* src/unnamed/part_000 (rclone.ts: checkRclone, buildRcloneArgs,          *)
(* executeRclone) and src/src/cli.ts (the top-level catch).                *)
(*                                                                         *)
(* Strings that the validator trims are sequences of one-character         *)
(* strings; a filesystem path is a sequence of path components.            *)
(***************************************************************************)
EXTENDS Integers, Sequences, FiniteSets, TLC

\* ------------------------------------------------------------------ bounds

\* Largest number of entries in a configuration's "sources" array.
MaxSources == 2

\* ------------------------------------------------------------------- state

VARIABLES
    fs,             \* the files and directories under the backup root
    host,           \* what os.hostname() answers
    rcloneInstalled,\* whether `which rclone` finds the engine
    pc,             \* where the process is
    opts,           \* CliOptions
    exitCode,       \* the process's exit code, -1 while it runs
    machineName,    \* runBackup's machineName
    config,         \* runBackup's config
    enabledSources, \* runBackup's enabledSources
    idx,            \* position of the for-of loop in enabledSources (1-based)
    results,        \* runBackup's results
    cur,            \* the activation of backupSource that is awaiting
    proc,           \* the child process and the promise executeRclone returned
    summary,        \* runBackup's summary
    log,            \* what the logger emitted in this invocation
    loadSteps,      \* history: times this invocation set out to load its configuration
    loads,          \* history: calls of loadConfig in this invocation
    loadError,      \* the Error loadConfig threw in this invocation, if it did
    calls,          \* history: engine invocations of this invocation
    mkdirs,         \* history: destination directories this invocation created
    fs0             \* history: the filesystem when the invocation started

vars == <<fs, host, rcloneInstalled, pc, opts, exitCode, machineName, config,
          enabledSources, idx, results, cur, proc, summary, log, loadSteps,
          loads, loadError, calls, mkdirs, fs0>>

\* ----------------------------------------------------------------- strings

\* Characters String.prototype.trim removes (two of them).
IsWhitespace(c) == c \in {" ", "\t"}

RECURSIVE TrimStart(_)
TrimStart(s) ==
    IF s = <<>> THEN <<>>
    ELSE IF IsWhitespace(Head(s)) THEN TrimStart(Tail(s))
    ELSE s

RECURSIVE TrimEnd(_)
TrimEnd(s) ==
    IF s = <<>> THEN <<>>
    ELSE IF IsWhitespace(s[Len(s)]) THEN TrimEnd(SubSeq(s, 1, Len(s) - 1))
    ELSE s

\* Mutant: only leading whitespace is removed.
trimLeadingOnly(s) == TrimStart(s)

\* String.prototype.trim
trim(s) == TrimEnd(TrimStart(s))

\* ------------------------------------------------------------- JSON values

\* A parsed JSON value: its kind and its payload.
JNull == [t |-> "null", v |-> 0]
JNumber(n) == [t |-> "number", v |-> n]
JBool(b) == [t |-> "boolean", v |-> b]
JString(s) == [t |-> "string", v |-> s]
JArray(a) == [t |-> "array", v |-> a]
JObject(f) == [t |-> "object", v |-> f]
\* What reading a property that is not there yields.
JUndefined == [t |-> "undefined", v |-> 0]

\* The typeof operator: null and arrays are "object".
typeof(x) ==
    IF x.t \in {"null", "array", "object"} THEN "object" ELSE x.t

\* Property access on a value that passed the typeof/null test.
Field(x, k) ==
    IF x.t = "object" /\ k \in DOMAIN x.v THEN x.v[k] ELSE JUndefined

\* ------------------------------------------------------------ the validator

NoConfig == [machine_name |-> <<>>, sources |-> <<>>]
NoSource == [name |-> <<>>, path |-> <<>>, enabled |-> FALSE]

\* The Error a validation step throws: which rule, and for a source its
\* index and field (the text of the message is a function of the three).
ConfigError(rule, index, field) == [rule |-> rule, index |-> index, field |-> field]
NoError == ConfigError("none", -1, "")

\* Mutant: the path of a source is looked at before its name.
validateSourcePathFirst(source, index) ==
    IF typeof(source) # "object" \/ source.t = "null"
    THEN [ok |-> FALSE, error |-> ConfigError("Source is not an object", index, ""),
          value |-> NoSource]
    ELSE IF typeof(Field(source, "path")) # "string"
            \/ trim(Field(source, "path").v) = <<>>
    THEN [ok |-> FALSE, error |-> ConfigError("Source missing valid field", index, "path"),
          value |-> NoSource]
    ELSE IF typeof(Field(source, "name")) # "string"
            \/ trim(Field(source, "name").v) = <<>>
    THEN [ok |-> FALSE, error |-> ConfigError("Source missing valid field", index, "name"),
          value |-> NoSource]
    ELSE IF typeof(Field(source, "enabled")) # "boolean"
    THEN [ok |-> FALSE, error |-> ConfigError("Source missing valid field", index, "enabled"),
          value |-> NoSource]
    ELSE [ok |-> TRUE, error |-> NoError,
          value |-> [name |-> trim(Field(source, "name").v),
                     path |-> trim(Field(source, "path").v),
                     enabled |-> Field(source, "enabled").v]]

validateSource(source, index) ==
    IF typeof(source) # "object" \/ source.t = "null"
    THEN [ok |-> FALSE, error |-> ConfigError("Source is not an object", index, ""),
          value |-> NoSource]
    ELSE IF typeof(Field(source, "name")) # "string"
            \/ trim(Field(source, "name").v) = <<>>
    THEN [ok |-> FALSE, error |-> ConfigError("Source missing valid field", index, "name"),
          value |-> NoSource]
    ELSE IF typeof(Field(source, "path")) # "string"
            \/ trim(Field(source, "path").v) = <<>>
    THEN [ok |-> FALSE, error |-> ConfigError("Source missing valid field", index, "path"),
          value |-> NoSource]
    ELSE IF typeof(Field(source, "enabled")) # "boolean"
    THEN [ok |-> FALSE, error |-> ConfigError("Source missing valid field", index, "enabled"),
          value |-> NoSource]
    ELSE [ok |-> TRUE, error |-> NoError,
          value |-> [name |-> trim(Field(source, "name").v),
                     path |-> trim(Field(source, "path").v),
                     enabled |-> Field(source, "enabled").v]]

\* Mutant: a source that does not validate is left out and the others are
\* returned.
RECURSIVE MapValidateSourceSkipping(_, _, _)
MapValidateSourceSkipping(arr, i, acc) ==
    IF i > Len(arr) THEN [ok |-> TRUE, error |-> NoError, value |-> acc]
    ELSE LET r == validateSource(arr[i], i - 1)
         IN MapValidateSourceSkipping(arr, i + 1,
                                      IF r.ok THEN Append(acc, r.value) ELSE acc)

\* config.sources.map((s, i) => validateSource(s, i)): the indices (0-based)
\* are visited in order and the first throw ends the map.
RECURSIVE MapValidateSource(_, _, _)
MapValidateSource(arr, i, acc) ==
    IF i > Len(arr) THEN [ok |-> TRUE, error |-> NoError, value |-> acc]
    ELSE LET r == validateSource(arr[i], i - 1)
         IN IF r.ok THEN MapValidateSource(arr, i + 1, Append(acc, r.value))
            ELSE [ok |-> FALSE, error |-> r.error, value |-> <<>>]

validateConfig(data) ==
    IF typeof(data) # "object" \/ data.t = "null"
    THEN [ok |-> FALSE, error |-> ConfigError("Config must be a valid JSON object", -1, ""),
          config |-> NoConfig]
    ELSE IF typeof(Field(data, "machine_name")) # "string"
    THEN [ok |-> FALSE, error |-> ConfigError("Config missing field", -1, "machine_name"),
          config |-> NoConfig]
    ELSE IF Field(data, "sources").t # "array"
    THEN [ok |-> FALSE, error |-> ConfigError("Config missing array", -1, "sources"),
          config |-> NoConfig]
    ELSE LET m == MapValidateSource(Field(data, "sources").v, 1, <<>>)
         IN IF m.ok
            THEN [ok |-> TRUE, error |-> NoError,
                  config |-> [machine_name |-> Field(data, "machine_name").v,
                              sources |-> m.value]]
            ELSE [ok |-> FALSE, error |-> m.error, config |-> NoConfig]

\* ------------------------------------------------------------------- paths

\* process.cwd(): the directory the process was launched in.
Cwd == "/srv/syncr"

\* os.hostname() answers one of these.
Hosts == {<<"h", "1">>, <<"h", "2">>}

\* path.join on a path and further components.
join(base, parts) == base \o parts

getBackupRoot == <<Cwd>>

getPaths ==
    [backupRoot |-> getBackupRoot,
     configDir |-> join(getBackupRoot, <<"config">>),
     machineConfigsDir |-> join(getBackupRoot, <<"config", "machine-configs">>),
     logsDir |-> join(getBackupRoot, <<"logs">>),
     backupsDir |-> join(getBackupRoot, <<"backups">>),
     filtersFile |-> join(getBackupRoot, <<"config", "filters.txt">>)]

\* `${getMachineName()}.json` under machineConfigsDir, for host name h.
getMachineConfigPath(h) == join(getPaths.machineConfigsDir, <<h \o <<".json">> >>)

\* Mutant: the machine directory is taken from the loaded configuration's
\* machine_name instead of the host name.
DestPathFromConfig(name, source) ==
    join(getPaths.backupsDir, <<config.machine_name, source.name>>)

\* join(paths.backupsDir, machineName, source.name), for the machine name
\* backupSource obtained.
DestPathOf(name, source) == join(getPaths.backupsDir, <<name, source.name>>)

\* ----------------------------------------------------- configuration inputs

\* Values of "name" as written in a configuration file (one is padded).
RawNames == {<<"a">>, <<"b", " ">>}
\* Values of "path" as written; only the first names a folder that exists.
RawPaths == {<<"p">>, <<"q">>}
ExistingSourcePaths == {<<"p">>}

RawSource(n, p, e) ==
    JObject([name |-> JString(n), path |-> JString(p), enabled |-> JBool(e)])

RawConfig(m, srcs) ==
    JObject([machine_name |-> JString(m), sources |-> JArray(srcs)])

SeqsUpTo(S, n) == UNION {[1..k -> S] : k \in 0..n}

\* Every enabled source, and the disabled ones on the existing folder.
ValidRawSources ==
    {RawSource(n, p, TRUE) : n \in RawNames, p \in RawPaths}
    \cup {RawSource(n, p, FALSE) : n \in RawNames, p \in ExistingSourcePaths}

ValidRawConfigs ==
    {RawConfig(m, srcs) : m \in Hosts, srcs \in SeqsUpTo(ValidRawSources, MaxSources)}

\* Parsed values the validator rejects: top-level values of every JSON kind
\* but a record, records that break one rule, and records that break several.
InvalidRawConfigs ==
    {JNull,
     JNumber(1),
     JBool(TRUE),
     JString(<<"a">>),
     JArray(<<>>),
     JObject([sources |-> JArray(<<>>)]),
     JObject([sources |-> JArray(<<JNull>>)]),
     JObject([machine_name |-> JString(<<"h", "1">>)]),
     JObject([machine_name |-> JNumber(1), sources |-> JArray(<<>>)]),
     JObject([machine_name |-> JNumber(1), sources |-> JNull]),
     RawConfig(<<"h", "1">>, <<JNull>>),
     RawConfig(<<"h", "1">>, <<JNumber(1)>>),
     RawConfig(<<"h", "1">>, <<JArray(<<>>)>>),
     RawConfig(<<"h", "1">>, <<RawSource(<<" ">>, <<"p">>, TRUE)>>),
     RawConfig(<<"h", "1">>, <<RawSource(<<"a">>, <<>>, TRUE)>>),
     RawConfig(<<"h", "1">>, <<RawSource(<<"\t">>, <<" ", "\t">>, TRUE)>>),
     RawConfig(<<"h", "1">>,
               <<JObject([name |-> JString(<<"a">>), path |-> JString(<<"p">>),
                          enabled |-> JString(<<"a">>)])>>),
     RawConfig(<<"h", "1">>,
               <<JObject([name |-> JNumber(1), path |-> JString(<<"p">>)])>>),
     RawConfig(<<"h", "1">>,
               <<JObject([name |-> JString(<<"a">>), path |-> JString(<<"p">>)])>>),
     RawConfig(<<"h", "1">>, <<RawSource(<<"a">>, <<"p">>, TRUE), JNull>>),
     RawConfig(<<"h", "1">>,
               <<RawSource(<<"a">>, <<"p">>, TRUE),
                 JObject([name |-> JString(<<"b">>), path |-> JString(<<" ">>),
                          enabled |-> JNull])>>),
     RawConfig(<<"h", "1">>,
               <<JObject([name |-> JString(<<"a">>), path |-> JString(<<"p">>),
                          enabled |-> JNumber(1)]),
                 RawSource(<<>>, <<"p">>, TRUE)>>)}

\* A file: absent, text that JSON.parse rejects, or the text of a JSON value.
AbsentFile == [kind |-> "absent", data |-> JNull]
GarbageFile == [kind |-> "garbage", data |-> JNull]
JsonFile(d) == [kind |-> "json", data |-> d]

ConfigFileContents ==
    {AbsentFile, GarbageFile} \cup {JsonFile(d) : d \in ValidRawConfigs \cup InvalidRawConfigs}

\* --------------------------------------------------------------- filesystem

SourceNames == {trim(n) : n \in RawNames}

\* The destination directories there can be: backups/<host>/<source name>.
DestPaths == {join(getPaths.backupsDir, <<h, n>>) : h \in Hosts, n \in SourceNames}

\* What is at a destination path: nothing, a directory just created, or a
\* mirror of the source.
DestStates == {"absent", "empty", "synced"}

\* existsSync on the kinds of path the program asks about.
ExistsSource(path) == path \in ExistingSourcePaths
ExistsDest(f, destPath) == f.dest[destPath] # "absent"
ExistsConfig(f, h) == f.configs[h].kind # "absent"

\* mkdirSync(destPath, { recursive: true })
MkdirDest(f, destPath) == [f EXCEPT !.dest[destPath] = "empty"]

\* The logger appends to logs/syncr_YYYYMMDD.log and first creates the logs
\* directory, with its ancestors, when it is not there.
LoggerFs(f) == [f EXCEPT !.root = TRUE, !.logsDir = TRUE]

Entry(level, message) == [level |-> level, message |-> message]

\* ------------------------------------------------------------- sync executor

Message(kind, text) == [kind |-> kind, text |-> text]
NoMessage == Message("none", "")

\* `${code}` for the exit codes of the model.
CodeText(code) ==
    IF code.t = "null" THEN "null"
    ELSE IF code.v = 0 THEN "0"
    ELSE IF code.v = 1 THEN "1"
    ELSE "-2"

\* Mutant: --progress is left out of the verbose arguments.
buildRcloneArgsNoProgress(sourcePath, destPath, dryRun, verbose, filtersExist) ==
    <<"sync", sourcePath, destPath, "--checksum", "--delete-during">>
    \o (IF dryRun THEN <<"--dry-run">> ELSE <<>>)
    \o (IF verbose THEN <<"--verbose">> ELSE <<>>)
    \o (IF filtersExist THEN <<"--filter-from", getPaths.filtersFile>> ELSE <<>>)

buildRcloneArgs(sourcePath, destPath, dryRun, verbose, filtersExist) ==
    <<"sync", sourcePath, destPath, "--checksum", "--delete-during">>
    \o (IF dryRun THEN <<"--dry-run">> ELSE <<>>)
    \o (IF verbose THEN <<"--verbose", "--progress">> ELSE <<>>)
    \o (IF filtersExist THEN <<"--filter-from", getPaths.filtersFile>> ELSE <<>>)

HasArg(args, a) == \E i \in 6..Len(args) : args[i] = a

\* The child process and the promise around it: whether the system started
\* the process, the exit code it closed with (undefined until then), the
\* text its stderr handler buffered, and what the promise settled to.
NoProc == [state |-> "none", launched |-> FALSE, code |-> JUndefined, args |-> <<>>,
           dest |-> <<>>, stderr |-> "", piped |-> FALSE, settled |-> "none",
           error |-> NoMessage]

\* Mutant: the close handler takes every falsy code (0 and null) as success.
CloseOutcomeFalsyCode(code, stderr) ==
    IF code \in {JNumber(0), JNull}
    THEN [settled |-> "resolved", error |-> NoMessage]
    ELSE [settled |-> "rejected",
          error |-> IF stderr # "" THEN Message("stderr", stderr)
                    ELSE Message("rclone exited with code", CodeText(code))]

\* Mutant: the close handler does nothing for a null code (a process ended
\* by a signal), so the promise stays pending.
CloseOutcomeIgnoringSignal(code, stderr) ==
    IF code = JNumber(0)
    THEN [settled |-> "resolved", error |-> NoMessage]
    ELSE IF code = JNull
    THEN [settled |-> "pending", error |-> NoMessage]
    ELSE [settled |-> "rejected",
          error |-> IF stderr # "" THEN Message("stderr", stderr)
                    ELSE Message("rclone exited with code", CodeText(code))]

\* The close handler of executeRclone: what the promise becomes.
CloseOutcome(code, stderr) ==
    IF code = JNumber(0)
    THEN [settled |-> "resolved", error |-> NoMessage]
    ELSE [settled |-> "rejected",
          error |-> IF stderr # "" THEN Message("stderr", stderr)
                    ELSE Message("rclone exited with code", CodeText(code))]

\* The error handler of executeRclone.
ErrorOutcome == [settled |-> "rejected", error |-> Message("Failed to spawn rclone", "ENOENT")]

\* Mutant: a later resolve or reject replaces the earlier outcome.
SettleLastWins(p, outcome) ==
    [p EXCEPT !.settled = outcome.settled, !.error = outcome.error]

\* A promise settles once: resolve and reject after that change nothing.
Settle(p, outcome) ==
    IF p.settled = "pending"
    THEN [p EXCEPT !.settled = outcome.settled, !.error = outcome.error]
    ELSE p

\* What the sync engine does to its destination when it runs to an exit with
\* these arguments: with --dry-run nothing, otherwise a mirror on success.
EngineEffect(f, p, code) ==
    IF HasArg(p.args, "--dry-run") \/ code # JNumber(0) THEN f
    ELSE [f EXCEPT !.dest[p.dest] = "synced"]

\* ---------------------------------------------------------- config loading

\* JSON.stringify followed by JSON.parse of a MachineConfig: the JSON value
\* the written text denotes.
SourceToJson(src) == RawSource(src.name, src.path, src.enabled)

ToJson(cfg) ==
    RawConfig(cfg.machine_name, [i \in 1..Len(cfg.sources) |-> SourceToJson(cfg.sources[i])])

\* The template initializeConfig writes.
\* Mutant: the example source of the template is written enabled.
TemplateEnabled(h) ==
    [machine_name |-> h,
     sources |-> <<[name |-> <<"E", "x">>, path |-> <<"/", "d">>, enabled |-> TRUE]>>]

Template(h) ==
    [machine_name |-> h,
     sources |-> <<[name |-> <<"E", "x">>, path |-> <<"/", "d">>, enabled |-> FALSE]>>]

\* Mutant: a file that cannot be parsed or validated is taken as a
\* configuration without sources instead of being an error.
loadConfigLenient(f, h) ==
    IF ~ExistsConfig(f, h)
    THEN [ok |-> FALSE, error |-> ConfigError("Configuration file not found", -1, ""),
          config |-> NoConfig]
    ELSE IF f.configs[h].kind = "garbage" \/ ~validateConfig(f.configs[h].data).ok
    THEN [ok |-> TRUE, error |-> NoError, config |-> NoConfig]
    ELSE validateConfig(f.configs[h].data)

\* loadConfig(configPath) for the configuration file of host name h.
loadConfig(f, h) ==
    IF ~ExistsConfig(f, h)
    THEN [ok |-> FALSE, error |-> ConfigError("Configuration file not found", -1, ""),
          config |-> NoConfig]
    ELSE IF f.configs[h].kind = "garbage"
    THEN [ok |-> FALSE, error |-> ConfigError("Failed to parse configuration file", -1, ""),
          config |-> NoConfig]
    ELSE validateConfig(f.configs[h].data)

\* Mutant: the template is written whether or not the file exists.
initializeConfigOverwriting(f, h) ==
    [f EXCEPT !.root = TRUE, !.machineConfigsDir = TRUE,
              !.configs[h] = JsonFile(ToJson(Template(h)))]

\* initializeConfig: the filesystem after it.
initializeConfig(f, h) ==
    LET g == [f EXCEPT !.root = TRUE, !.machineConfigsDir = TRUE]
    IN IF ExistsConfig(g, h) THEN g
       ELSE [g EXCEPT !.configs[h] = JsonFile(ToJson(Template(h)))]

validateBackupRoot(f) == f.root

\* os.hostname(), asked anew at every call.
getMachineName == host

\* Mutant: the enabled flag is not looked at.
IsEnabledAlways(src) == TRUE

IsEnabled(src) == src.enabled

\* Mutant: the enabled sources come out in reverse configuration order.
getEnabledSourcesReversed(cfg) ==
    LET e == SelectSeq(cfg.sources, IsEnabled)
    IN [i \in 1..Len(e) |-> e[Len(e) + 1 - i]]

getEnabledSources(cfg) == SelectSeq(cfg.sources, IsEnabled)

\* -------------------------------------------------------------- the summary

Undefined == "undefined"
Elapsed == "elapsed"

\* Mutant: the elapsed time is measured and returned on both paths.
BackupResultTimed(source, success, error, duration) ==
    [source |-> source, success |-> success, error |-> error, duration |-> Elapsed]

BackupResult(source, success, error, duration) ==
    [source |-> source, success |-> success, error |-> error, duration |-> duration]

Succeeded(r) == r.success
Failed(r) == ~r.success

\* Mutant: only failures of the engine are counted, not missing source paths.
EngineFailed(r) == ~r.success /\ r.error.kind # "Source path not found"
FailCountEngineOnly(rs) == Len(SelectSeq(rs, EngineFailed))

\* Mutant: every source that was not synced counts as skipped.
SkippedCountNotSynced(cfg, enabled) == Len(cfg.sources) - Len(SelectSeq(results, Succeeded))

SuccessCount(rs) == Len(SelectSeq(rs, Succeeded))
FailCount(rs) == Len(SelectSeq(rs, Failed))
SkippedCount(cfg, enabled) == Len(cfg.sources) - Len(enabled)

NoSummary ==
    [machine |-> <<>>, totalSources |-> 0, successCount |-> 0, failCount |-> 0,
     skippedCount |-> 0, results |-> <<>>, dryRun |-> FALSE, made |-> FALSE]

BackupSummary(machine, cfg, enabled, rs, dryRun) ==
    [machine |-> machine,
     totalSources |-> Len(enabled),
     successCount |-> SuccessCount(rs),
     failCount |-> FailCount(rs),
     skippedCount |-> SkippedCount(cfg, enabled),
     results |-> rs,
     dryRun |-> dryRun,
     made |-> TRUE]

\* Mutant: dryRun is not consulted.
FinalExitCodeIgnoringDryRun(failCount, dryRun) == IF failCount > 0 THEN 1 ELSE 0

\* The exit code runBackup ends with after the summary.
FinalExitCode(failCount, dryRun) == IF failCount > 0 /\ ~dryRun THEN 1 ELSE 0

\* ------------------------------------------------------------ initial states

\* The flag combinations cli.ts can pass: every one for a backup run, and
\* with a special mode the two other flags both off or both on.
Options ==
    {o \in [dryRun : BOOLEAN, verbose : BOOLEAN, listOnly : BOOLEAN, init : BOOLEAN,
            checkTools : BOOLEAN] :
        (o.listOnly \/ o.init \/ o.checkTools) => (o.dryRun = o.verbose)}

NoOptions ==
    [dryRun |-> FALSE, verbose |-> FALSE, listOnly |-> FALSE, init |-> FALSE,
     checkTools |-> FALSE]

NoActivation == [source |-> NoSource, destPath |-> <<>>]

\* Nothing exists: the backup root itself is gone.
EmptyFs ==
    [root |-> FALSE, logsDir |-> FALSE, machineConfigsDir |-> FALSE,
     configs |-> [h \in Hosts |-> AbsentFile], filters |-> FALSE,
     dest |-> [d \in DestPaths |-> "absent"]]

\* The filesystems the first invocation on host h can find: whatever is under
\* the root exists only when the root does, a configuration file only in its
\* directory, only this host has a configuration, and nothing was logged or
\* synced yet (a later invocation finds what the earlier ones left).
InitialFs(h) ==
    {EmptyFs} \cup
    {[root |-> TRUE, logsDir |-> FALSE, machineConfigsDir |-> (m \/ c.kind # "absent"),
      configs |-> [x \in Hosts |-> IF x = h THEN c ELSE AbsentFile],
      filters |-> fl,
      dest |-> [d \in DestPaths |-> "absent"]] :
        m \in BOOLEAN, c \in ConfigFileContents, fl \in BOOLEAN}

RunIdle ==
    /\ pc = "idle"
    /\ opts = NoOptions
    /\ exitCode = -1
    /\ machineName = <<>>
    /\ config = NoConfig
    /\ enabledSources = <<>>
    /\ idx = 0
    /\ results = <<>>
    /\ cur = NoActivation
    /\ proc = NoProc
    /\ summary = NoSummary
    /\ log = <<>>
    /\ loadSteps = 0
    /\ loads = 0
    /\ loadError = NoError
    /\ calls = <<>>
    /\ mkdirs = <<>>

Init ==
    /\ host = <<"h", "1">>
    /\ fs \in InitialFs(host)
    /\ fs0 = fs
    /\ rcloneInstalled \in BOOLEAN
    /\ RunIdle

\* ------------------------------------------------------------------ actions

env == <<host, rcloneInstalled>>
loopState == <<config, enabledSources, idx, results, cur, proc, summary>>
loadHistory == <<loadSteps, loads, loadError>>

\* process.exit(code), or the process ending after runBackup returned.
Exit(code) ==
    /\ pc' = "terminal"
    /\ exitCode' = code

\* cli.ts calls runBackup(options): its first lines read the host name and
\* the working directory.
Invoke(o) ==
    /\ pc = "idle"
    /\ pc' = "dispatch"
    /\ opts' = o
    /\ machineName' = getMachineName
    /\ fs0' = fs
    /\ UNCHANGED <<fs, env, exitCode, loopState, log, loadHistory, calls, mkdirs>>

\* The working directory is gone and process.cwd() throws: runBackup rejects
\* and the catch of cli.ts ends the process.
InvokeCwdGone(o) ==
    /\ pc = "idle"
    /\ ~fs.root
    /\ opts' = o
    /\ machineName' = getMachineName
    /\ fs0' = fs
    /\ Exit(1)
    /\ UNCHANGED <<fs, env, loopState, log, loadHistory, calls, mkdirs>>

RunToolCheck ==
    /\ pc = "dispatch"
    /\ opts.checkTools
    /\ log' = log \o <<Entry("INFO", "=== Tool Check ===")>>
              \o (IF rcloneInstalled
                  THEN <<Entry("SUCCESS", "rclone: INSTALLED")>>
                  ELSE <<Entry("ERROR", "rclone: MISSING"), Entry("INFO", "Install from")>>)
    /\ fs' = LoggerFs(fs)
    /\ Exit(0)
    /\ UNCHANGED <<env, opts, machineName, loopState, loadHistory, calls, mkdirs, fs0>>

RunInit ==
    /\ pc = "dispatch"
    /\ ~opts.checkTools
    /\ opts.init
    /\ fs' = LoggerFs(initializeConfig(LoggerFs(fs), getMachineName))
    /\ log' = log \o <<Entry("INFO", "Initializing backup configuration"),
                       Entry("SUCCESS", "Configuration created"),
                       Entry("INFO", "Edit the file")>>
    /\ Exit(0)
    /\ UNCHANGED <<env, opts, machineName, loopState, loadHistory, calls, mkdirs, fs0>>

RunListSources ==
    /\ pc = "dispatch"
    /\ ~opts.checkTools
    /\ ~opts.init
    /\ opts.listOnly
    /\ loadSteps' = loadSteps + 1
    /\ IF ~ExistsConfig(fs, getMachineName)
       THEN /\ log' = log \o <<Entry("ERROR", "Configuration file not found"),
                               Entry("INFO", "Run with --init")>>
            /\ fs' = LoggerFs(fs)
            /\ Exit(1)
            /\ UNCHANGED <<loads, loadError>>
       ELSE LET r == loadConfig(fs, getMachineName)
            IN /\ loads' = loads + 1
               /\ loadError' = r.error
               /\ IF r.ok
                  THEN /\ log' = log \o <<Entry("INFO", "=== Configured Sources ===")>>
                                 \o [i \in 1..Len(r.config.sources) |->
                                        Entry("INFO", "source status")]
                       /\ fs' = LoggerFs(fs)
                       /\ Exit(0)
                  ELSE \* loadConfig throws, runBackup rejects, cli.ts exits
                       /\ UNCHANGED <<log, fs>>
                       /\ Exit(1)
    /\ UNCHANGED <<env, opts, machineName, loopState, calls, mkdirs, fs0>>

\* Mutant: the backup starts whether or not a special mode was asked for.
StartBackupIgnoringModes ==
    /\ pc = "dispatch"
    /\ log' = log \o <<Entry("INFO", "=== Starting Backup ==="), Entry("INFO", "Machine")>>
              \o (IF opts.dryRun THEN <<Entry("WARN", "Mode: DRY RUN")>> ELSE <<>>)
    /\ fs' = LoggerFs(fs)
    /\ pc' = "prereq_root"
    /\ UNCHANGED <<env, opts, exitCode, machineName, loopState, loadHistory, calls, mkdirs, fs0>>

StartBackup ==
    /\ pc = "dispatch"
    /\ ~opts.checkTools
    /\ ~opts.init
    /\ ~opts.listOnly
    /\ log' = log \o <<Entry("INFO", "=== Starting Backup ==="), Entry("INFO", "Machine")>>
              \o (IF opts.dryRun THEN <<Entry("WARN", "Mode: DRY RUN")>> ELSE <<>>)
    /\ fs' = LoggerFs(fs)
    /\ pc' = "prereq_root"
    /\ UNCHANGED <<env, opts, exitCode, machineName, loopState, loadHistory, calls, mkdirs, fs0>>

ValidateBackupRootStep ==
    /\ pc = "prereq_root"
    /\ IF validateBackupRoot(fs)
       THEN /\ pc' = "prereq_tool"
            /\ UNCHANGED <<exitCode, log, fs>>
       ELSE /\ log' = log \o <<Entry("ERROR", "Backup root directory not found")>>
            /\ fs' = LoggerFs(fs)
            /\ Exit(1)
    /\ UNCHANGED <<env, opts, machineName, loopState, loadHistory, calls, mkdirs, fs0>>

\* Mutant: the engine is taken as installed without looking.
checkRcloneAlwaysGood == TRUE

\* checkRclone().allGood
checkRclone == rcloneInstalled

CheckRcloneStep ==
    /\ pc = "prereq_tool"
    /\ IF checkRclone
       THEN /\ pc' = "load_config"
            /\ UNCHANGED <<exitCode, log>>
       ELSE /\ log' = log \o <<Entry("ERROR", "rclone is not installed"),
                               Entry("INFO", "Install from")>>
            /\ Exit(1)
    /\ UNCHANGED <<fs, env, opts, machineName, loopState, loadHistory, calls, mkdirs, fs0>>

LoadConfigStep ==
    /\ pc = "load_config"
    /\ loadSteps' = loadSteps + 1
    /\ IF ~ExistsConfig(fs, getMachineName)
       THEN /\ log' = log \o <<Entry("ERROR", "No configuration found for this machine"),
                               Entry("ERROR", "Machine-specific config expected at"),
                               Entry("INFO", "Run with --init")>>
            /\ Exit(1)
            /\ UNCHANGED <<config, loads, loadError>>
       ELSE LET r == loadConfig(fs, getMachineName)
            IN /\ loads' = loads + 1
               /\ loadError' = r.error
               /\ IF r.ok
                  THEN /\ config' = r.config
                       /\ log' = log \o <<Entry("INFO", "Loaded configuration")>>
                       /\ pc' = "select"
                       /\ UNCHANGED exitCode
                  ELSE /\ log' = log \o <<Entry("ERROR", r.error.rule)>>
                       /\ Exit(1)
                       /\ UNCHANGED config
    /\ UNCHANGED <<fs, env, opts, machineName, enabledSources, idx, results, cur, proc,
                   summary, calls, mkdirs, fs0>>

SelectEnabledSources ==
    /\ pc = "select"
    /\ enabledSources' = getEnabledSources(config)
    /\ IF Len(enabledSources') = 0
       THEN /\ log' = log \o <<Entry("WARN", "No enabled sources found in configuration")>>
            /\ Exit(0)
            /\ UNCHANGED idx
       ELSE /\ log' = log \o <<Entry("INFO", "Processing n source(s)")>>
            /\ pc' = "loop"
            /\ idx' = 1
            /\ UNCHANGED exitCode
    /\ UNCHANGED <<fs, env, opts, machineName, config, results, cur, proc, summary,
                   loadHistory, calls, mkdirs, fs0>>

\* Mutant: a source whose path is not on disk gets its failed result without
\* a word in the log.
BackupSourceMissingSilent ==
    /\ pc = "loop"
    /\ idx <= Len(enabledSources)
    /\ LET source == enabledSources[idx]
       IN /\ ~ExistsSource(source.path)
          /\ log' = log \o <<Entry("INFO", "Processing")>>
          /\ results' = Append(results,
                               BackupResult(source, FALSE,
                                            Message("Source path not found", ""), Undefined))
    /\ idx' = idx + 1
    /\ UNCHANGED <<fs, env, pc, opts, exitCode, machineName, config, enabledSources, cur,
                   proc, summary, loadHistory, calls, mkdirs, fs0>>

\* Mutant: the destination directory is created before the source path is
\* looked at.
BackupSourceMissingMkdir ==
    /\ pc = "loop"
    /\ idx <= Len(enabledSources)
    /\ LET source == enabledSources[idx]
           destPath == DestPathOf(getMachineName, source)
       IN /\ ~ExistsSource(source.path)
          /\ fs' = IF ExistsDest(fs, destPath) THEN fs ELSE MkdirDest(fs, destPath)
          /\ mkdirs' = IF ExistsDest(fs, destPath) THEN mkdirs ELSE Append(mkdirs, destPath)
          /\ log' = log \o <<Entry("INFO", "Processing"), Entry("WARN", "Source not found")>>
          /\ results' = Append(results,
                               BackupResult(source, FALSE,
                                            Message("Source path not found", ""), Undefined))
    /\ idx' = idx + 1
    /\ UNCHANGED <<env, pc, opts, exitCode, machineName, config, enabledSources, cur,
                   proc, summary, loadHistory, calls, fs0>>

\* backupSource for a source whose path is not on disk.
BackupSourceMissing ==
    /\ pc = "loop"
    /\ idx <= Len(enabledSources)
    /\ LET source == enabledSources[idx]
       IN /\ ~ExistsSource(source.path)
          /\ log' = log \o <<Entry("INFO", "Processing"), Entry("WARN", "Source not found")>>
          /\ results' = Append(results,
                               BackupResult(source, FALSE,
                                            Message("Source path not found", ""), Undefined))
    /\ idx' = idx + 1
    /\ UNCHANGED <<fs, env, pc, opts, exitCode, machineName, config, enabledSources, cur,
                   proc, summary, loadHistory, calls, mkdirs, fs0>>

\* backupSource up to its await: the destination is derived and created, the
\* arguments are built and the engine is spawned; `launched` is whether the
\* operating system could start it.
BackupSourceSpawn(launched) ==
    /\ pc = "loop"
    /\ idx <= Len(enabledSources)
    /\ LET source == enabledSources[idx]
           destPath == DestPathOf(getMachineName, source)
           args == buildRcloneArgs(source.path, destPath, opts.dryRun, opts.verbose,
                                   fs.filters)
       IN /\ ExistsSource(source.path)
          /\ fs' = IF ExistsDest(fs, destPath) THEN fs ELSE MkdirDest(fs, destPath)
          /\ mkdirs' = IF ExistsDest(fs, destPath) THEN mkdirs ELSE Append(mkdirs, destPath)
          /\ log' = log \o <<Entry("INFO", "Processing"), Entry("INFO", "From"),
                             Entry("INFO", "To")>>
                    \o (IF opts.verbose THEN <<Entry("INFO", "Command")>> ELSE <<>>)
          /\ cur' = [source |-> source, destPath |-> destPath]
          /\ proc' = [state |-> IF launched THEN "running" ELSE "launch_failed",
                      launched |-> launched, code |-> JUndefined,
                      args |-> args, dest |-> destPath, stderr |-> "",
                      piped |-> ~opts.verbose, settled |-> "pending", error |-> NoMessage]
          /\ calls' = Append(calls, [source |-> source, args |-> args])
    /\ pc' = "await"
    /\ UNCHANGED <<env, opts, exitCode, machineName, config, enabledSources, idx, results,
                   summary, loadHistory, fs0>>

\* proc.stderr.on('data'): attached only when the output is piped.
OnStderrData ==
    /\ proc.state = "running"
    /\ proc.piped
    /\ proc.stderr = ""
    /\ proc' = [proc EXCEPT !.stderr = "boom"]
    /\ UNCHANGED <<fs, env, pc, opts, exitCode, machineName, config, enabledSources, idx,
                   results, cur, summary, log, loadHistory, calls, mkdirs, fs0>>

ExitCodes == {JNumber(0), JNumber(1), JNull}

\* proc.on('close') of a process that ran.
OnClose(code) ==
    /\ proc.state = "running"
    /\ proc' = [Settle(proc, CloseOutcome(code, proc.stderr)) EXCEPT
                    !.state = "closed", !.code = code]
    /\ fs' = EngineEffect(fs, proc, code)
    /\ UNCHANGED <<env, pc, opts, exitCode, machineName, config, enabledSources, idx,
                   results, cur, summary, log, loadHistory, calls, mkdirs, fs0>>

\* proc.on('error') of a process that could not be started.
OnError ==
    /\ proc.state = "launch_failed"
    /\ proc' = [Settle(proc, ErrorOutcome) EXCEPT !.state = "errored"]
    /\ UNCHANGED <<fs, env, pc, opts, exitCode, machineName, config, enabledSources, idx,
                   results, cur, summary, log, loadHistory, calls, mkdirs, fs0>>

\* proc.on('close') after the error event of a failed launch (a negative code).
OnCloseAfterError ==
    /\ proc.state = "errored"
    /\ proc' = [Settle(proc, CloseOutcome(JNumber(-2), proc.stderr)) EXCEPT
                    !.state = "closed", !.code = JNumber(-2)]
    /\ UNCHANGED <<fs, env, pc, opts, exitCode, machineName, config, enabledSources, idx,
                   results, cur, summary, log, loadHistory, calls, mkdirs, fs0>>

\* Mutant: backupSource has no catch, so a rejected executeRclone rejects
\* runBackup and cli.ts ends the process.
BackupSourceSettleAborting ==
    /\ pc = "await"
    /\ proc.settled \in {"resolved", "rejected"}
    /\ IF proc.settled = "resolved"
       THEN /\ log' = log \o <<Entry("SUCCESS", "Status: Success")>>
            /\ results' = Append(results, BackupResult(cur.source, TRUE, NoMessage, Elapsed))
            /\ idx' = idx + 1
            /\ pc' = "loop"
            /\ UNCHANGED exitCode
       ELSE /\ Exit(1)
            /\ UNCHANGED <<log, results, idx>>
    /\ cur' = NoActivation
    /\ proc' = NoProc
    /\ UNCHANGED <<fs, env, opts, machineName, config, enabledSources, summary,
                   loadHistory, calls, mkdirs, fs0>>

\* Mutant: executeRclone is not awaited, the result is pushed while the engine
\* may still be running.
BackupSourceSettleNotAwaiting ==
    /\ pc = "await"
    /\ IF proc.settled # "rejected"
       THEN /\ log' = log \o <<Entry("SUCCESS", "Status: Success")>>
            /\ results' = Append(results, BackupResult(cur.source, TRUE, NoMessage, Elapsed))
       ELSE /\ log' = log \o <<Entry("ERROR", "Status: Failed")>>
            /\ results' = Append(results, BackupResult(cur.source, FALSE, proc.error, Undefined))
    /\ idx' = idx + 1
    /\ pc' = "loop"
    /\ cur' = NoActivation
    /\ proc' = NoProc
    /\ UNCHANGED <<fs, env, opts, exitCode, machineName, config, enabledSources, summary,
                   loadHistory, calls, mkdirs, fs0>>

\* Mutant: a source whose invocation failed is tried once more before its
\* failure is recorded.
BackupSourceSettleRetrying ==
    /\ pc = "await"
    /\ proc.settled \in {"resolved", "rejected"}
    /\ IF proc.settled = "rejected" /\ Len(calls) <= idx
       THEN /\ log' = log \o <<Entry("WARN", "Retrying")>>
            /\ UNCHANGED <<results, idx>>
       ELSE /\ idx' = idx + 1
            /\ IF proc.settled = "resolved"
               THEN /\ log' = log \o <<Entry("SUCCESS", "Status: Success")>>
                    /\ results' = Append(results,
                                         BackupResult(cur.source, TRUE, NoMessage, Elapsed))
               ELSE /\ log' = log \o <<Entry("ERROR", "Status: Failed")>>
                    /\ results' = Append(results,
                                         BackupResult(cur.source, FALSE, proc.error, Undefined))
    /\ pc' = "loop"
    /\ cur' = NoActivation
    /\ proc' = NoProc
    /\ UNCHANGED <<fs, env, opts, exitCode, machineName, config, enabledSources, summary,
                   loadHistory, calls, mkdirs, fs0>>

\* backupSource after its await, and results.push(result) in runBackup.
BackupSourceSettle ==
    /\ pc = "await"
    /\ proc.settled \in {"resolved", "rejected"}
    /\ IF proc.settled = "resolved"
       THEN /\ log' = log \o <<Entry("SUCCESS", "Status: Success")>>
            /\ results' = Append(results, BackupResult(cur.source, TRUE, NoMessage, Elapsed))
       ELSE /\ log' = log \o <<Entry("ERROR", "Status: Failed")>>
            /\ results' = Append(results, BackupResult(cur.source, FALSE, proc.error, Undefined))
    /\ idx' = idx + 1
    /\ pc' = "loop"
    /\ cur' = NoActivation
    /\ proc' = NoProc
    /\ UNCHANGED <<fs, env, opts, exitCode, machineName, config, enabledSources, summary,
                   loadHistory, calls, mkdirs, fs0>>

Summarize ==
    /\ pc = "loop"
    /\ idx > Len(enabledSources)
    /\ summary' = BackupSummary(machineName, config, enabledSources, results, opts.dryRun)
    /\ log' = log \o <<Entry("INFO", "=== Summary ==="), Entry("SUCCESS", "Success: n")>>
              \o (IF summary'.failCount > 0 THEN <<Entry("WARN", "Failed: n")>> ELSE <<>>)
              \o (IF opts.dryRun THEN <<Entry("WARN", "DRY RUN - no files copied")>> ELSE <<>>)
    /\ pc' = "summary"
    /\ UNCHANGED <<fs, env, opts, exitCode, machineName, config, enabledSources, idx,
                   results, cur, proc, loadHistory, calls, mkdirs, fs0>>

Finish ==
    /\ pc = "summary"
    /\ Exit(FinalExitCode(summary.failCount, opts.dryRun))
    /\ UNCHANGED <<fs, env, opts, machineName, loopState, log, loadHistory, calls, mkdirs, fs0>>

\* The scheduler (or the user) starts the program again on the same files.
NextInvocation ==
    /\ pc = "terminal"
    /\ pc' = "idle"
    /\ opts' = NoOptions
    /\ exitCode' = -1
    /\ machineName' = <<>>
    /\ config' = NoConfig
    /\ enabledSources' = <<>>
    /\ idx' = 0
    /\ results' = <<>>
    /\ cur' = NoActivation
    /\ proc' = NoProc
    /\ summary' = NoSummary
    /\ log' = <<>>
    /\ loadSteps' = 0
    /\ loads' = 0
    /\ loadError' = NoError
    /\ calls' = <<>>
    /\ mkdirs' = <<>>
    /\ fs0' = fs
    /\ UNCHANGED <<fs, env>>

Next ==
    \/ \E o \in Options : Invoke(o)
    \/ \E o \in Options : InvokeCwdGone(o)
    \/ RunToolCheck
    \/ RunInit
    \/ RunListSources
    \/ StartBackup
    \/ ValidateBackupRootStep
    \/ CheckRcloneStep
    \/ LoadConfigStep
    \/ SelectEnabledSources
    \/ BackupSourceMissing
    \/ \E launched \in BOOLEAN : BackupSourceSpawn(launched)
    \/ OnStderrData
    \/ \E code \in ExitCodes : OnClose(code)
    \/ OnError
    \/ OnCloseAfterError
    \/ BackupSourceSettle
    \/ Summarize
    \/ Finish
    \/ NextInvocation

Spec == Init /\ [][Next]_vars

\* The steps of the program itself: everything runBackup does between two
\* events of the child process, which the event loop runs to completion.
RunStep ==
    \/ RunToolCheck
    \/ RunInit
    \/ RunListSources
    \/ StartBackup
    \/ ValidateBackupRootStep
    \/ CheckRcloneStep
    \/ LoadConfigStep
    \/ SelectEnabledSources
    \/ BackupSourceMissing
    \/ \E launched \in BOOLEAN : BackupSourceSpawn(launched)
    \/ BackupSourceSettle
    \/ Summarize
    \/ Finish

\* The event that ends the wait for a spawned process: its close event, or
\* the error event of a launch that failed.
ProcessEnds ==
    \/ \E code \in ExitCodes : OnClose(code)
    \/ OnError

\* The environment renames the host while an invocation is in progress:
\* os.hostname() answers the new name from then on.
HostNameChanges ==
    /\ pc \notin {"idle", "terminal"}
    /\ host' \in Hosts \ {host}
    /\ UNCHANGED <<fs, rcloneInstalled, pc, opts, exitCode, machineName, loopState, log,
                   loadHistory, calls, mkdirs, fs0>>

EnvNext == Next \/ HostNameChanges

\* The configuration files of the runs followed to their end: none, an
\* unparseable one, an invalid one, and the lists of an enabled source on an
\* existing folder, an enabled source on a missing one and a disabled source.
LiveRawSources ==
    {RawSource(<<"a">>, <<"p">>, TRUE),
     RawSource(<<"b", " ">>, <<"q">>, TRUE),
     RawSource(<<"a">>, <<"p">>, FALSE)}

LiveConfigFiles ==
    {AbsentFile, GarbageFile, JsonFile(JNull)}
    \cup {JsonFile(RawConfig(<<"h", "1">>, srcs)) : srcs \in SeqsUpTo(LiveRawSources, MaxSources)}

LiveInit ==
    /\ host = <<"h", "1">>
    /\ fs \in {f \in InitialFs(host) : f.configs[host] \in LiveConfigFiles}
    /\ fs0 = fs
    /\ rcloneInstalled \in BOOLEAN
    /\ RunIdle

\* The runs in which the program keeps running while it has a step to take
\* and every spawned process eventually closes or fails to launch.
LiveSpec == LiveInit /\ [][Next]_vars /\ WF_vars(RunStep) /\ WF_vars(ProcessEnds)

\* The program in an environment that may rename the host, from the same
\* initial states.
EnvSpec == LiveInit /\ [][EnvNext]_vars

\* ------------------------------------------------------------------ claims

\* The enabled entries of a validated configuration, counted and listed from
\* the configuration itself.
EnabledIndices(cfg) == {i \in 1..Len(cfg.sources) : cfg.sources[i].enabled}

RECURSIVE EnabledFrom(_, _)
EnabledFrom(cfg, i) ==
    IF i > Len(cfg.sources) THEN <<>>
    ELSE (IF cfg.sources[i].enabled THEN <<cfg.sources[i]>> ELSE <<>>)
         \o EnabledFrom(cfg, i + 1)

FailedIndices(rs) == {i \in 1..Len(rs) : rs[i].success = FALSE}

\* A backup run: none of the special modes was asked for.
BackupRun == pc # "idle" /\ ~opts.checkTools /\ ~opts.init /\ ~opts.listOnly

\* C1: in every run that reaches the summary step, successCount + failCount
\* equals totalSources, and totalSources is the number of sources of the
\* configuration with enabled = true.
C1_CountInvariant ==
    summary.made =>
        /\ summary.successCount + summary.failCount = summary.totalSources
        /\ summary.totalSources = Cardinality(EnabledIndices(config))

\* A summary of a run in which one source succeeded and another failed.
C1_Witness ==
    /\ summary.made
    /\ summary.successCount = 1
    /\ summary.failCount = 1

\* C2: in every run that reaches the summary step, skippedCount is the number
\* of configured sources minus the number of enabled ones, that is the number
\* of disabled sources, whatever the enabled sources' outcomes were.
C2_SkippedCount ==
    summary.made =>
        /\ summary.skippedCount = Len(config.sources) - Cardinality(EnabledIndices(config))
        /\ summary.skippedCount =
               Cardinality({i \in 1..Len(config.sources) : ~config.sources[i].enabled})

\* A summary with a disabled source and a failed enabled one.
C2_Witness ==
    /\ summary.made
    /\ summary.skippedCount = 1
    /\ summary.failCount = 1

\* C3: results holds one BackupResult per enabled source and none for a
\* disabled one, the i-th result being that of the i-th enabled source in
\* configuration order, whichever sources fail: while the loop runs results
\* is that prefix of the enabled sources, and at the summary all of them.
C3_OrderPreserved ==
    /\ pc \in {"loop", "await", "summary"} \/ summary.made =>
          /\ Len(results) <= Len(EnabledFrom(config, 1))
          /\ \A i \in 1..Len(results) : results[i].source = EnabledFrom(config, 1)[i]
    /\ summary.made =>
          /\ Len(summary.results) = Len(EnabledFrom(config, 1))
          /\ \A i \in 1..Len(summary.results) :
                summary.results[i].source = EnabledFrom(config, 1)[i]

\* A summary of two different enabled sources, the first of them failed and
\* the second synced.
C3_Witness ==
    /\ summary.made
    /\ Len(summary.results) = 2
    /\ summary.results[1].source # summary.results[2].source
    /\ ~summary.results[1].success
    /\ summary.results[2].success

\* C4: a backup run that processed at least one source ends with exit code 0
\* exactly when no result failed or dryRun is set; with an enabled source
\* whose path is missing it ends with 0 under dry run and with non-zero
\* otherwise.
C4_ExitCode ==
    pc = "terminal" /\ BackupRun /\ Len(results) > 0 =>
        /\ exitCode = 0 <=> (FailedIndices(results) = {} \/ opts.dryRun)
        /\ (\E i \in EnabledIndices(config) : ~ExistsSource(config.sources[i].path)) =>
               exitCode = (IF opts.dryRun THEN 0 ELSE 1)

\* A dry run that ended with exit code 0 although a source path was missing.
C4_Witness ==
    /\ pc = "terminal"
    /\ BackupRun
    /\ opts.dryRun
    /\ exitCode = 0
    /\ \E i \in 1..Len(results) : results[i].error.kind = "Source path not found"

\* The enabled sources whose folder exists: those the engine is run for.
RECURSIVE ExistingOf(_)
ExistingOf(srcs) ==
    IF srcs = <<>> THEN <<>>
    ELSE (IF ExistsSource(Head(srcs).path) THEN <<Head(srcs)>> ELSE <<>>)
         \o ExistingOf(Tail(srcs))

\* C5: a failed source (path missing, engine failure, launch failure) never
\* ends the run: a backup run that started on its sources can always take a
\* step until it has ended, and it ends only after the summary, with a result
\* for every enabled source and the engine run for every enabled source whose
\* path exists, those after a failed one included.
C5_FailureIsolation ==
    /\ BackupRun /\ pc \in {"loop", "await", "summary"} => ENABLED Next
    /\ BackupRun /\ pc = "terminal" /\ enabledSources # <<>> =>
          /\ summary.made
          /\ Len(results) = Len(EnabledFrom(config, 1))
          /\ Len(calls) = Len(ExistingOf(EnabledFrom(config, 1)))
          /\ \A i \in 1..Len(calls) :
                calls[i].source = ExistingOf(EnabledFrom(config, 1))[i]

\* A run that ended after the engine failed for the first source and synced
\* the second.
C5_Witness ==
    /\ BackupRun
    /\ pc = "terminal"
    /\ Len(results) = 2
    /\ results[1].error.kind \in {"stderr", "rclone exited with code", "Failed to spawn rclone"}
    /\ results[2].success
    /\ Len(calls) = 2

\* C6: a backup run started when the destination root does not exist or the
\* engine cannot be found ends with a non-zero exit code, with or without
\* dryRun, and up to then calls loadConfig never, holds no configuration,
\* creates no destination directory and runs the engine for no source.
C6_FatalPrereqs ==
    BackupRun /\ (~fs0.root \/ ~rcloneInstalled) =>
        /\ loads = 0
        /\ config = NoConfig
        /\ mkdirs = <<>>
        /\ fs.dest = fs0.dest
        /\ calls = <<>>
        /\ results = <<>>
        /\ pc = "terminal" => exitCode # 0

\* A dry run that ended with a failure because the engine is not installed,
\* although the root exists and its configuration has an enabled source.
C6_Witness ==
    /\ BackupRun
    /\ pc = "terminal"
    /\ opts.dryRun
    /\ fs0.root
    /\ ~rcloneInstalled
    /\ fs0.configs[host].kind = "json"
    /\ validateConfig(fs0.configs[host].data).ok
    /\ EnabledIndices(validateConfig(fs0.configs[host].data).config) # {}
    /\ exitCode = 1

\* A configuration file that is absent, is no JSON text, or holds a value the
\* validator rejects.
BadConfigFile(c) ==
    \/ c.kind \in {"absent", "garbage"}
    \/ c.kind = "json" /\ c.data \in InvalidRawConfigs

\* C7: a backup run that passed the prerequisite checks and finds the machine's
\* configuration file absent, unparseable or invalid ends with a non-zero
\* exit code, also under dry run; it enters the loading step once, calls
\* loadConfig at most once, and processes no source: no result, no
\* destination directory, no engine run.
C7_FatalConfig ==
    BackupRun /\ fs0.root /\ rcloneInstalled /\ BadConfigFile(fs0.configs[host]) =>
        /\ loadSteps <= 1
        /\ loads <= loadSteps
        /\ config = NoConfig
        /\ enabledSources = <<>>
        /\ results = <<>>
        /\ mkdirs = <<>>
        /\ fs.dest = fs0.dest
        /\ calls = <<>>
        /\ pc = "terminal" => (exitCode # 0 /\ loadSteps = 1)

\* A dry run that ended with a failure on a configuration whose first source
\* the validator rejects.
C7_Witness ==
    /\ BackupRun
    /\ pc = "terminal"
    /\ opts.dryRun
    /\ fs0.configs[host].kind = "json"
    /\ fs0.configs[host].data \in InvalidRawConfigs
    /\ fs0.configs[host].data.t = "object"
    /\ loads = 1
    /\ exitCode = 1
    /\ \E i \in 1..Len(log) : log[i] = Entry("ERROR", "Source missing valid field")

\* A configuration file the validator accepts and in which no source is
\* enabled.
NoneEnabledFile(c) ==
    /\ c.kind = "json"
    /\ c.data \in ValidRawConfigs
    /\ \A i \in 1..Len(c.data.v.sources.v) : c.data.v.sources.v[i].v.enabled = JBool(FALSE)

\* C8: a backup run that passed the prerequisite checks on a valid
\* configuration without an enabled source (an empty list included) logs a
\* warning, runs the engine zero times, creates no destination directory and
\* ends with exit code 0, with or without dryRun.
C8_NoEnabledSources ==
    BackupRun /\ fs0.root /\ rcloneInstalled /\ NoneEnabledFile(fs0.configs[host]) =>
        /\ calls = <<>>
        /\ mkdirs = <<>>
        /\ fs.dest = fs0.dest
        /\ results = <<>>
        /\ pc = "terminal" =>
              /\ exitCode = 0
              /\ \E i \in 1..Len(log) :
                    log[i] = Entry("WARN", "No enabled sources found in configuration")

\* A run without dryRun that ended on a configuration of two disabled sources.
C8_Witness ==
    /\ BackupRun
    /\ pc = "terminal"
    /\ ~opts.dryRun
    /\ fs0.root
    /\ rcloneInstalled
    /\ NoneEnabledFile(fs0.configs[host])
    /\ Len(config.sources) = 2
    /\ exitCode = 0

\* C9 as claimed: the destination passed to the engine is
\* join(backupsDir, machineIdentity, source.name) with machineIdentity the
\* machine_name of the loaded MachineConfig.
C9_DestFromLoadedConfig ==
    \A i \in 1..Len(calls) :
        calls[i].args[3] = <<Cwd, "backups", config.machine_name, calls[i].source.name>>

\* C9 as amended: the destination passed to the engine, which exists on disk
\* from then on, is join(backupsDir, hostName, source.name), with hostName
\* what os.hostname() answers and source.name the validated (trimmed) name;
\* the directories a run creates are of this form, whatever the position of
\* the source and the outcomes before it.
C9_DestFromHostName ==
    /\ \A i \in 1..Len(calls) :
          /\ calls[i].args[3] = <<Cwd, "backups", host, calls[i].source.name>>
          /\ calls[i].source.name \in SourceNames
          /\ fs.dest[calls[i].args[3]] # "absent"
    /\ \A j \in 1..Len(mkdirs) :
          \E i \in 1..Len(calls) : mkdirs[j] = calls[i].args[3]

\* Two sources were synced, the first failing, by a run whose configuration
\* names another machine than the host.
C9_Witness ==
    /\ Len(calls) = 2
    /\ Len(results) = 2
    /\ ~results[1].success
    /\ config.machine_name # host
    /\ calls[1].source.name # calls[2].source.name
    /\ Len(mkdirs) = 2

\* C10: in a run with dryRun the state of every destination path (existence
\* and content) stays what it was when the run started.
C10_DryRunLeavesDestinations ==
    opts.dryRun => fs.dest = fs0.dest

\* The results that came from an engine invocation (the source was on disk).
EngineResults(rs) == {i \in 1..Len(rs) : rs[i].error.kind # "Source path not found"}

\* At most one invocation exists, and only while backupSource awaits it; the
\* invocations made are one more than the engine results while awaiting and
\* as many as the engine results otherwise.
C11_OneInFlight ==
    /\ proc # NoProc <=> pc = "await"
    /\ pc = "await" => cur.source = calls[Len(calls)].source
    /\ Len(calls) = Cardinality(EngineResults(results)) + (IF pc = "await" THEN 1 ELSE 0)

\* An invocation starts only when none exists and every earlier one has its
\* result in results; the result of an invocation is appended only after its
\* promise settled and its process (if one was launched) has closed.
C11_Step ==
    /\ Len(calls') > Len(calls) =>
          /\ proc = NoProc
          /\ Len(calls') = Len(calls) + 1
          /\ Cardinality(EngineResults(results)) = Len(calls)
    /\ pc = "await" /\ Len(results') > Len(results) =>
          /\ proc.settled \in {"resolved", "rejected"}
          /\ proc.state # "running"
          /\ results'[Len(results')].success = (proc.settled = "resolved")

\* C11: at every point of a run at most one engine invocation is in flight;
\* the invocation for the next enabled source starts only after the previous
\* one has settled (success or failure) and its BackupResult is in results.
C11_Sequential == []C11_OneInFlight /\ [][C11_Step]_vars

\* The engine runs for the second source after the invocation for the first
\* failed and its result was appended.
C11_Witness ==
    /\ pc = "await"
    /\ proc.state = "running"
    /\ Len(calls) = 2
    /\ Len(results) = 1
    /\ results[1].error.kind \in {"stderr", "rclone exited with code"}

\* The configuration file the invocation found, and a run or a listing that
\* called loadConfig on it.
FileAtStart == fs0.configs[host]
Loaded == pc # "idle" /\ loads = 1 /\ FileAtStart.kind = "json"

\* The rules of the validator, stated on JSON values.
IsRecord(x) == x.t = "object"
Prop(x, k) == IF k \in DOMAIN x.v THEN x.v[k] ELSE JUndefined
IsBlank(str) == \A i \in 1..Len(str) : str[i] \in {" ", "\t"}
IsText(x) == x.t = "string" /\ ~IsBlank(x.v)
SourceFields == <<"name", "path", "enabled">>
FieldOk(src, k) ==
    IF k = "enabled" THEN Prop(src, k).t = "boolean" ELSE IsText(Prop(src, k))
SourceOk(src) == IsRecord(src) /\ \A j \in 1..3 : FieldOk(src, SourceFields[j])

\* The rejections of the validator: which kind, and for a source its 0-based
\* index and the field.
Rejection(kind, index, field) == [kind |-> kind, index |-> index, field |-> field]
Accepted == Rejection("none", -1, "")

\* The first field of a record source, in the order name, path, enabled, that
\* breaks its rule.
FirstBadField(src) ==
    SourceFields[CHOOSE j \in 1..3 :
                    /\ ~FieldOk(src, SourceFields[j])
                    /\ \A k \in 1..(j - 1) : FieldOk(src, SourceFields[k])]

\* The first rule, in the order top-level record, machine_name, sources, the
\* sources by index, that a parsed value breaks.
FirstViolation(d) ==
    IF ~IsRecord(d) THEN Rejection("MalformedConfig", -1, "")
    ELSE IF Prop(d, "machine_name").t # "string"
    THEN Rejection("MissingField", -1, "machine_name")
    ELSE IF Prop(d, "sources").t # "array"
    THEN Rejection("MissingField", -1, "sources")
    ELSE LET srcs == Prop(d, "sources").v
             bad == {i \in 1..Len(srcs) : ~SourceOk(srcs[i])}
         IN IF bad = {} THEN Accepted
            ELSE LET i == CHOOSE i \in bad : \A j \in bad : i <= j
                 IN Rejection("InvalidSource", i - 1,
                              IF IsRecord(srcs[i]) THEN FirstBadField(srcs[i]) ELSE "")

\* What an Error of the validator says, in those terms; for a source that is
\* no record the Error names the index and whatever field the code tripped on.
Said(e, d) ==
    IF e = NoError THEN Accepted
    ELSE IF e.rule = "Config must be a valid JSON object"
    THEN Rejection("MalformedConfig", -1, "")
    ELSE IF e.rule \in {"Config missing field", "Config missing array"}
    THEN Rejection("MissingField", -1, e.field)
    ELSE IF e.rule = "Source is not an object"
    THEN Rejection("InvalidSource", e.index, "")
    ELSE IF e.rule = "Source missing valid field"
    THEN Rejection("InvalidSource", e.index,
                   IF IsRecord(Prop(d, "sources").v[e.index + 1]) THEN e.field ELSE "")
    ELSE Rejection("other", -1, "")

C13_NonRecordIsMalformed ==
    Loaded /\ ~IsRecord(FileAtStart.data) =>
        loadError.rule = "Config must be a valid JSON object"

\* A validated configuration: machine_name is a string, every source has a
\* name and a path that are not empty and carry no whitespace at their ends,
\* and a boolean enabled.
IsTrimmed(str) ==
    /\ str # <<>>
    /\ str[1] \notin {" ", "\t"}
    /\ str[Len(str)] \notin {" ", "\t"}

WellFormed(cfg) ==
    /\ DOMAIN cfg = {"machine_name", "sources"}
    /\ \A i \in 1..Len(cfg.machine_name) : cfg.machine_name[i] \in STRING
    /\ \A i \in 1..Len(cfg.sources) :
          /\ DOMAIN cfg.sources[i] = {"name", "path", "enabled"}
          /\ IsTrimmed(cfg.sources[i].name)
          /\ IsTrimmed(cfg.sources[i].path)
          /\ cfg.sources[i].enabled \in BOOLEAN

AnyInvalidSource(d) ==
    /\ IsRecord(d)
    /\ Prop(d, "sources").t = "array"
    /\ \E i \in 1..Len(Prop(d, "sources").v) : ~SourceOk(Prop(d, "sources").v[i])

\* C14: the validator either fails, and then the run holds no configuration
\* and processes nothing, or returns a MachineConfig with a string
\* machine_name and, for every source of the input, a source with a trimmed
\* non-empty name and path and a boolean enabled; when any source of the
\* input is invalid it fails, and no configuration of the valid sources is
\* returned.
C14_ValidationTotality ==
    Loaded /\ BackupRun =>
        /\ loadError # NoError =>
              config = NoConfig /\ enabledSources = <<>> /\ results = <<>>
        /\ loadError = NoError =>
              /\ WellFormed(config)
              /\ FileAtStart.data.v.machine_name.v = config.machine_name
              /\ Len(config.sources) = Len(FileAtStart.data.v.sources.v)
        /\ AnyInvalidSource(FileAtStart.data) =>
              loadError # NoError /\ config = NoConfig

\* A file whose first source is valid and enabled and whose second is not
\* valid: the run ended without a configuration.
C14_Witness ==
    /\ Loaded
    /\ BackupRun
    /\ pc = "terminal"
    /\ AnyInvalidSource(FileAtStart.data)
    /\ SourceOk(FileAtStart.data.v.sources.v[1])
    /\ FileAtStart.data.v.sources.v[1].v.enabled = JBool(TRUE)
    /\ config = NoConfig
    /\ exitCode = 1

\* Whitespace put before and after a string.
Pads == {<<>>, <<" ">>, <<"\t", " ">>}
Pad(l, str, r) == l \o str \o r

\* The names and paths of a raw configuration: source position and field.
FieldSlots(d) == (1..Len(d.v.sources.v)) \X {"name", "path"}

\* A raw configuration with l put before and r after each of the chosen names
\* and paths.
PaddedConfig(d, slots, l, r) ==
    RawConfig(d.v.machine_name.v,
              [i \in 1..Len(d.v.sources.v) |->
                  LET src == d.v.sources.v[i].v
                  IN RawSource(IF <<i, "name">> \in slots THEN Pad(l, src.name.v, r)
                               ELSE src.name.v,
                               IF <<i, "path">> \in slots THEN Pad(l, src.path.v, r)
                               ELSE src.path.v,
                               src.enabled.v)])

\* No name or path of a raw configuration has whitespace at its ends.
IsClean(d) ==
    \A i \in 1..Len(d.v.sources.v) :
        /\ IsTrimmed(d.v.sources.v[i].v.name.v)
        /\ IsTrimmed(d.v.sources.v[i].v.path.v)

\* The raw configuration without the whitespace at the ends of its names and
\* paths.
RECURSIVE Strip(_)
Strip(str) ==
    IF str # <<>> /\ str[1] \in {" ", "\t"} THEN Strip(Tail(str))
    ELSE IF str # <<>> /\ str[Len(str)] \in {" ", "\t"}
    THEN Strip(SubSeq(str, 1, Len(str) - 1))
    ELSE str

CleanConfig(d) ==
    RawConfig(d.v.machine_name.v,
              [i \in 1..Len(d.v.sources.v) |->
                  RawSource(Strip(d.v.sources.v[i].v.name.v),
                            Strip(d.v.sources.v[i].v.path.v),
                            d.v.sources.v[i].v.enabled.v)])

\* C15: when a run has loaded a valid file, what it holds is what the
\* validator returns for the file without the whitespace at the ends of its
\* names and paths; for a file that has none, it is what the validator
\* returns for the file with whitespace added around any of its names and
\* paths; and validating what the validator returned (written as JSON)
\* returns it unchanged.
C15_TrimIdempotence ==
    Loaded /\ BackupRun /\ pc = "select" =>
        LET d == FileAtStart.data
            out == [ok |-> TRUE, error |-> NoError, config |-> config]
        IN /\ validateConfig(CleanConfig(d)) = out
           /\ IsClean(d) =>
                 \A slots \in SUBSET FieldSlots(d), l \in Pads, r \in Pads :
                     validateConfig(PaddedConfig(d, slots, l, r)) = out
           /\ validateConfig(ToJson(config)) = out

\* A run loaded a file of two sources without whitespace at the ends of their
\* names and paths.
C15_Witness ==
    /\ Loaded
    /\ BackupRun
    /\ pc = "select"
    /\ Len(config.sources) = 2
    /\ IsClean(FileAtStart.data)
    /\ config.sources[1].path # config.sources[2].path

\* The positions after the five fixed arguments that hold a given flag.
FlagAt(args, flag) == {i \in 6..Len(args) : args[i] = flag}

\* The arguments of a call are the five fixed ones, then the flags for what
\* was asked and for the filter-rules file, and nothing else.
ArgsAsDocumented(args, sourcePath, destPath, dryRun, verbose, filtersExist) ==
    /\ Len(args) = 5 + (IF dryRun THEN 1 ELSE 0) + (IF verbose THEN 2 ELSE 0)
                     + (IF filtersExist THEN 2 ELSE 0)
    /\ args[1] = "sync"
    /\ args[2] = sourcePath
    /\ args[3] = destPath
    /\ args[4] = "--checksum"
    /\ args[5] = "--delete-during"
    /\ FlagAt(args, "--dry-run") # {} <=> dryRun
    /\ FlagAt(args, "--verbose") # {} <=> verbose
    /\ FlagAt(args, "--progress") # {} <=> verbose
    /\ FlagAt(args, "--filter-from") # {} <=> filtersExist
    /\ \A i \in FlagAt(args, "--filter-from") :
          i < Len(args) /\ args[i + 1] = <<Cwd, "config", "filters.txt">>

ExitedWith(code) ==
    [kind |-> "rclone exited with code",
     text |-> IF code = JNull THEN "null" ELSE IF code = JNumber(1) THEN "1" ELSE "other"]

\* What the executor reports for a process that ran and closed.
C17_Closed ==
    proc.state = "closed" /\ proc.launched =>
        /\ proc.settled = "resolved" <=> proc.code = JNumber(0)
        /\ proc.settled \in {"resolved", "rejected"}
        /\ proc.settled = "rejected" =>
              proc.error = IF proc.stderr # "" THEN [kind |-> "stderr", text |-> proc.stderr]
                           ELSE ExitedWith(proc.code)
        /\ proc.stderr # "" => proc.piped

\* The result backupSource makes of it.
C17_Step ==
    pc = "await" /\ proc.launched /\ Len(results') > Len(results) =>
        /\ proc.state = "closed"
        /\ results'[Len(results')].success = (proc.code = JNumber(0))
        /\ results'[Len(results')].error = proc.error

\* C17: the executor reports success exactly when the process closed with
\* exit code 0; for a null or non-zero code it reports a failure whose message
\* is the buffered standard-error text when any was captured and otherwise
\* the generic message naming the exit code.
C17_ExitStatus == []C17_Closed /\ [][C17_Step]_vars

\* A process closed with a null exit code and without error text.
C17_Witness ==
    /\ proc.state = "closed"
    /\ proc.launched
    /\ proc.code = JNull
    /\ proc.stderr = ""
    /\ proc.settled = "rejected"
    /\ proc.error.text = "null"

\* The failure of a launch, once the error event was delivered.
C18_LaunchFailure ==
    proc # NoProc /\ ~proc.launched =>
        /\ proc.state = "launch_failed" => proc.settled = "pending"
        /\ proc.state \in {"errored", "closed"} =>
              /\ proc.settled = "rejected"
              /\ proc.error.kind = "Failed to spawn rclone"
              /\ proc.error.kind \notin {"stderr", "rclone exited with code"}

\* A settled promise keeps its outcome whatever event comes later, and the
\* result of a failed launch carries the launch failure.
C18_Step ==
    /\ proc.settled \in {"resolved", "rejected"} /\ proc' # NoProc =>
          proc'.settled = proc.settled /\ proc'.error = proc.error
    /\ pc = "await" /\ ~proc.launched /\ Len(results') > Len(results) =>
          /\ ~results'[Len(results')].success
          /\ results'[Len(results')].error.kind = "Failed to spawn rclone"

FailureEvents(l) ==
    {i \in 1..Len(l) :
        \/ l[i].level = "WARN" /\ l[i].message = "Source not found"
        \/ l[i].level = "ERROR" /\ l[i].message = "Status: Failed"}

\* While a run processes its sources and after: a failed result for every
\* source whose path is missing, as many failure events in the log as failed
\* results, and at the summary a failCount that counts them all.
C19_Recorded ==
    BackupRun /\ pc \in {"loop", "await", "summary", "terminal"} =>
        /\ \A i \in 1..Len(results) :
              ~ExistsSource(enabledSources[i].path) => ~results[i].success
        /\ Cardinality(FailureEvents(log)) = Cardinality(FailedIndices(results))
        /\ \A i \in FailureEvents(log) : log[i].level \in {"WARN", "ERROR"}
        /\ summary.made =>
              /\ summary.failCount = Cardinality(FailureEvents(log))
              /\ FailedIndices(results) # {} => summary.failCount > 0

\* The step in which a source fails appends a failed result and a failure
\* event: for a missing path, and for a rejected engine invocation (engine
\* failure or launch failure).
C19_Step ==
    /\ (pc = "loop" /\ idx' = idx + 1 /\ ~ExistsSource(enabledSources[idx].path))
       \/ (pc = "await" /\ pc' = "loop" /\ proc.settled = "rejected")
       => /\ Len(results') = Len(results) + 1
          /\ ~results'[Len(results')].success
          /\ Cardinality(FailureEvents(log')) = Cardinality(FailureEvents(log)) + 1
    /\ pc = "await" /\ proc.settled = "rejected" => pc' \in {"await", "loop"}

\* C19: every recoverable failure of a source in a run (missing path, engine
\* failure, launch failure) produces a log event at WARN or ERROR level and a
\* BackupResult with success = false in results, so that failCount > 0 at the
\* summary whenever a source failed.
C19_NoSilentFailure == []C19_Recorded /\ [][C19_Step]_vars

\* A summary after one source's path was missing and the other's engine
\* could not be launched.
C19_Witness ==
    /\ summary.made
    /\ summary.failCount = 2
    /\ results[1].error.kind = "Source path not found"
    /\ results[2].error.kind = "Failed to spawn rclone"
    /\ Cardinality(FailureEvents(log)) = 2

\* An invocation in the initialization mode (the tool check comes first when
\* both flags are given).
InitRun == pc # "idle" /\ opts.init /\ ~opts.checkTools

\* What init leaves: the file it found, or else the template of one disabled
\* source, which the validator accepts. Init ends with exit code 0 unless the
\* working directory is gone and process.cwd() throws before anything is
\* written.
C20_AfterInit ==
    InitRun /\ pc = "terminal" =>
        /\ \A h \in Hosts \ {host} : fs.configs[h] = fs0.configs[h]
        /\ exitCode # 0 => ~fs0.root /\ fs = fs0
        /\ IF fs0.configs[host].kind # "absent"
           THEN fs.configs[host] = fs0.configs[host]
           ELSE exitCode = 0 =>
                /\ fs.configs[host].kind = "json"
                /\ validateConfig(fs.configs[host].data).ok
                /\ Len(fs.configs[host].data.v.sources.v) = 1
                /\ fs.configs[host].data.v.sources.v[1].v.enabled = JBool(FALSE)
                /\ fs.configs[host].data.v.machine_name = JString(host)

\* No step of any invocation changes a configuration file that exists.
C20_Step ==
    \A h \in Hosts : fs.configs[h].kind # "absent" => fs'.configs[h] = fs.configs[h]

\* C20: the initialization mode never overwrites an existing machine
\* configuration file, whose content is the same after any number of init
\* invocations; when the file does not exist, init writes a template of
\* exactly one source, with enabled = false.
C20_InitNeverOverwrites == []C20_AfterInit /\ [][C20_Step]_vars

\* An init invocation ended on the file an earlier init invocation wrote.
C20_Witness ==
    /\ InitRun
    /\ pc = "terminal"
    /\ exitCode = 0
    /\ fs0.configs[host] = JsonFile(ToJson(Template(host)))
    /\ fs.configs[host] = fs0.configs[host]

\* An invocation in one of the special modes.
SpecialMode == pc # "idle" /\ (opts.checkTools \/ opts.init \/ opts.listOnly)

Logged(level, message) == \E i \in 1..Len(log) : log[i] = Entry(level, message)

\* What the backup pipeline would have logged on its way.
PipelineMessages ==
    {"=== Starting Backup ===", "Machine", "Backup root directory not found",
     "rclone is not installed", "Loaded configuration", "Processing", "=== Summary ==="}

\* The terminal state of each mode: the tool check reports and ends with 0
\* whether or not the engine is there; init ends with 0; the listing ends
\* with 0 on a configuration it could load and with 1 otherwise.
OwnTerminalState ==
    IF opts.checkTools
    THEN /\ exitCode = 0
         /\ Logged("INFO", "=== Tool Check ===")
         /\ Logged("SUCCESS", "rclone: INSTALLED") <=> rcloneInstalled
    ELSE IF opts.init
    THEN /\ exitCode = 0
         /\ Logged("INFO", "Initializing backup configuration")
    ELSE /\ exitCode = 0 <=> (loads = 1 /\ loadError = NoError)
         /\ exitCode = 0 <=> Logged("INFO", "=== Configured Sources ===")
         /\ exitCode \in {0, 1}

\* C21: an invocation in a special mode (tool check, init, source listing)
\* ends in that mode's own terminal state (or, with the working directory
\* gone, in the failure of runBackup's first lines) without the prerequisite
\* checks, without a destination directory created and without an engine
\* invocation, whatever the other flags, the configuration and the state of
\* the root and the engine are.
C21_SpecialModes ==
    SpecialMode =>
        /\ pc \in {"dispatch", "terminal"}
        /\ calls = <<>>
        /\ mkdirs = <<>>
        /\ fs.dest = fs0.dest
        /\ results = <<>>
        /\ ~summary.made
        /\ \A i \in 1..Len(log) : log[i].message \notin PipelineMessages
        /\ pc = "terminal" =>
              \/ ~fs0.root /\ log = <<>> /\ exitCode = 1
              \/ OwnTerminalState

\* A listing ended with exit code 0 although the engine is not installed and
\* the configuration has an enabled source on an existing folder.
C21_Witness ==
    /\ SpecialMode
    /\ pc = "terminal"
    /\ opts.listOnly /\ ~opts.init /\ ~opts.checkTools
    /\ opts.dryRun
    /\ ~rcloneInstalled
    /\ exitCode = 0
    /\ fs0.configs[host].kind = "json"
    /\ validateConfig(fs0.configs[host].data).ok
    /\ \E i \in EnabledIndices(validateConfig(fs0.configs[host].data).config) :
          ExistsSource(validateConfig(fs0.configs[host].data).config.sources[i].path)

\* C22: for an enabled source whose path is not on disk the BackupResult has
\* success = false and the error "Source path not found"; the engine is
\* invoked only for sources whose path exists, every destination directory a
\* run creates is that of an engine invocation, and a run whose enabled
\* sources are all missing leaves the destinations as they were.
C22_MissingSourcePath ==
    BackupRun =>
        /\ \A i \in 1..Len(results) :
              ~ExistsSource(results[i].source.path) =>
                  /\ results[i].source = enabledSources[i]
                  /\ results[i].success = FALSE
                  /\ results[i].error = [kind |-> "Source path not found", text |-> ""]
        /\ \A k \in 1..Len(calls) : ExistsSource(calls[k].source.path)
        /\ Len(mkdirs) <= Len(calls)
        /\ \A j \in 1..Len(mkdirs) : \E k \in 1..Len(calls) : mkdirs[j] = calls[k].args[3]
        /\ (\A i \in 1..Len(enabledSources) : ~ExistsSource(enabledSources[i].path)) =>
              calls = <<>> /\ fs.dest = fs0.dest

\* A run ended whose first source, of the same name as the second, was
\* missing and whose second source was synced.
C22_Witness ==
    /\ BackupRun
    /\ pc = "terminal"
    /\ Len(results) = 2
    /\ results[1].error.kind = "Source path not found"
    /\ results[2].success
    /\ results[1].source.name = results[2].source.name
    /\ Len(calls) = 1
    /\ Len(mkdirs) = 1

\* The enabled sources whose processing has begun.
Begun == IF pc = "await" THEN idx ELSE idx - 1

\* C23: within one run the engine is invoked at most once for each enabled
\* source, once when its path exists and not at all otherwise, also after an
\* invocation failed: the invocations made so far are, in order, the enabled
\* sources with an existing path among those whose processing has begun, and
\* at the end of the run among all of them.
C23_NoRetry ==
    BackupRun /\ enabledSources # <<>> /\ pc \in {"loop", "await", "summary", "terminal"} =>
        /\ Len(calls) = Len(ExistingOf(SubSeq(enabledSources, 1, Begun)))
        /\ \A k \in 1..Len(calls) :
              calls[k].source = ExistingOf(SubSeq(enabledSources, 1, Begun))[k]
        /\ pc \in {"summary", "terminal"} => Begun = Len(enabledSources)

\* A run ended in which the engine failed for both sources: two invocations.
C23_Witness ==
    /\ BackupRun
    /\ pc = "terminal"
    /\ Len(results) = 2
    /\ results[1].error.kind \in {"stderr", "rclone exited with code"}
    /\ results[2].error.kind = "Failed to spawn rclone"
    /\ Len(calls) = 2

\* The phases of a normal run, numbered in their order.
Phase(p) ==
    IF p \in {"idle", "dispatch"} THEN 0
    ELSE IF p \in {"prereq_root", "prereq_tool"} THEN 1
    ELSE IF p = "load_config" THEN 2
    ELSE IF p \in {"select", "loop", "await"} THEN 3
    ELSE IF p = "summary" THEN 4
    ELSE 5

\* The first ERROR event of the log.
FirstError ==
    log[CHOOSE i \in 1..Len(log) :
            /\ log[i].level = "ERROR"
            /\ \A j \in 1..(i - 1) : log[j].level # "ERROR"].message

\* The fatal conditions in the order of their checks, on what the run found
\* when it started: the error of the first that holds.
EarliestFatal ==
    IF ~fs0.root THEN "Backup root directory not found"
    ELSE IF ~rcloneInstalled THEN "rclone is not installed"
    ELSE IF fs0.configs[host].kind = "absent" THEN "No configuration found for this machine"
    ELSE IF fs0.configs[host].kind = "garbage" THEN "Failed to parse configuration file"
    ELSE validateConfig(fs0.configs[host].data).error.rule

AnyFatal ==
    \/ ~fs0.root
    \/ ~rcloneInstalled
    \/ fs0.configs[host].kind # "json"
    \/ ~validateConfig(fs0.configs[host].data).ok

\* A later phase is entered only after the earlier ones succeeded, and a run
\* that met a fatal condition reports the error of the earliest check (a run
\* that fails in its first lines on the missing working directory, before
\* it logs anything, counts as reporting the missing root).
C24_PhaseState ==
    BackupRun =>
        /\ pc = "prereq_tool" => validateBackupRoot(fs)
        /\ Phase(pc) \in {2, 3, 4} => validateBackupRoot(fs) /\ rcloneInstalled
        /\ Phase(pc) \in {3, 4} => loads = 1 /\ loadError = NoError
        /\ pc = "summary" => Len(results) = Len(enabledSources)
        /\ pc = "terminal" /\ AnyFatal =>
              /\ exitCode # 0
              /\ \/ ~fs0.root /\ log = <<>>
                 \/ /\ \E i \in 1..Len(log) : log[i].level = "ERROR"
                    /\ FirstError = EarliestFatal

\* The phases are passed in their order, one after the other, and only the
\* terminal phase may follow any of them; the root check precedes the engine
\* check.
C24_PhaseStep ==
    BackupRun /\ pc' # "idle" =>
        /\ Phase(pc') >= Phase(pc)
        /\ Phase(pc') # 5 => Phase(pc') <= Phase(pc) + 1
        /\ pc' = "prereq_tool" => pc \in {"prereq_root", "prereq_tool"}
        /\ pc = "prereq_tool" => pc' # "prereq_root"

\* C24: a normal run passes through ValidatingPrereqs (root check, then
\* engine check), LoadingConfig, ProcessingSources, Summarizing and Terminal
\* in this order only, never revisits a phase, never enters a phase before
\* the earlier ones succeeded, and when several fatal conditions hold reports
\* the error of the earliest check.
C24_PhaseOrder == []C24_PhaseState /\ [][C24_PhaseStep]_vars

\* What a run that has not ended is doing: it has a step of its own to take,
\* or it awaits the one process it spawned, which has not yet closed (or
\* whose failed launch has not yet been reported).
C25_OnlyAwaitsProcess ==
    pc \notin {"idle", "terminal"} =>
        \/ ENABLED RunStep
        \/ /\ pc = "await"
           /\ proc.settled = "pending"
           /\ proc.state \in {"running", "launch_failed"}
           /\ ENABLED ProcessEnds

\* C25: every run eventually reaches a terminal state with an exit code,
\* provided each launched process eventually closes or fails to launch; a
\* run never waits on anything but the end of the one process in flight.
C25_Termination ==
    /\ []C25_OnlyAwaitsProcess
    /\ (pc # "idle") ~> (pc = "terminal" /\ exitCode \in {0, 1})

\* A run that waited on two processes has ended.
C25_Witness ==
    /\ BackupRun
    /\ pc = "terminal"
    /\ Len(calls) = 2
    /\ Len(results) = 2
    /\ exitCode = 1

\* C26: the destination root and the machine identity are the same for every
\* step of a run: the configuration a run holds is the one of the file named
\* after the host name read at run start, every destination passed to the
\* engine is under backups/<that name>/ in the working directory read at run
\* start, the filter-rules file is looked up there too, and the summary names
\* that machine, even if the host name the environment reports changes while
\* the run is in progress.
C26_IdentityFixed ==
    BackupRun =>
        /\ Phase(pc) \in {3, 4} =>
              /\ fs0.configs[machineName].kind = "json"
              /\ config = validateConfig(fs0.configs[machineName].data).config
        /\ \A k \in 1..Len(calls) :
              /\ calls[k].args[3] = <<Cwd, "backups", machineName, calls[k].source.name>>
              /\ \A i \in FlagAt(calls[k].args, "--filter-from") :
                    calls[k].args[i + 1] = <<Cwd, "config", "filters.txt">>
        /\ summary.made => summary.machine = machineName

\* The shape of a result: a success has a duration and no error, a failure
\* has an error with text in it and no duration.
C27_Shape(r) ==
    /\ r.success => r.duration = Elapsed /\ r.error = NoMessage
    /\ ~r.success =>
          /\ r.duration = Undefined
          /\ r.error # NoMessage
          /\ r.error.kind \in {"Source path not found", "stderr",
                               "rclone exited with code", "Failed to spawn rclone"}
          /\ r.error.kind = "stderr" => r.error.text # ""

C27_Results == \A i \in 1..Len(results) : C27_Shape(results[i])

\* A result is appended for the source in turn: a success exactly when the
\* engine was invoked for it, its process was launched and closed with code
\* 0; a source never handed to the engine gets a failure.
C27_Step ==
    results' # results /\ results' # <<>> =>
        LET r == results'[Len(results')]
        IN /\ results' = Append(results, r)
           /\ r.source = enabledSources[Len(results')]
           /\ IF pc = "await"
              THEN /\ calls[Len(calls)].source = r.source
                   /\ r.success <=> /\ proc.launched
                                    /\ proc.state = "closed"
                                    /\ proc.code = JNumber(0)
              ELSE /\ calls' = calls
                   /\ ~r.success

\* C27: every BackupResult in results has success true exactly when the sync
\* engine was invoked for its source and exited with code 0; a successful
\* result carries a duration and no error, a failed one a non-empty error and
\* no duration.
C27_ResultShape == []C27_Results /\ [][C27_Step]_vars

\* A run ended with one source synced and the other failed in the engine.
C27_Witness ==
    /\ BackupRun
    /\ pc = "terminal"
    /\ Len(results) = 2
    /\ results[1].success /\ results[1].duration = Elapsed
    /\ ~results[2].success /\ results[2].error.kind = "rclone exited with code"
    /\ Len(calls) = 2

\* The configuration file of the host is the template as initializeConfig
\* writes it. No other writer of that file exists, and no file the machine
\* starts with has the example source in it.
TemplateFile(f) == f.configs[host] = JsonFile(ToJson(Template(host)))

\* An init invocation on a machine without a configuration file leaves the
\* template there and exits with code 0.
C28_InitWrites ==
    pc = "dispatch" /\ InitRun /\ ~ExistsConfig(fs, host) /\ pc' = "terminal" =>
        /\ TemplateFile(fs') /\ fs'.root /\ fs'.machineConfigsDir
        /\ exitCode' = 0

\* A normal run that found the template in place, with the destination root
\* present and the engine available: loaded once without error, the example
\* source is held and is not enabled, the engine is never invoked, and the
\* run ends with the warning and exit code 0.
C28_RunOnTemplate ==
    BackupRun /\ TemplateFile(fs0) /\ fs0.root /\ rcloneInstalled =>
        /\ calls = <<>> /\ mkdirs = <<>> /\ results = <<>> /\ ~summary.made
        /\ fs.configs = fs0.configs
        /\ pc \in {"select", "terminal"} =>
              /\ loads = 1 /\ loadError = NoError
              /\ config = Template(host)
              /\ Len(config.sources) = 1 /\ ~config.sources[1].enabled
        /\ pc = "terminal" =>
              /\ exitCode = 0
              /\ enabledSources = <<>>
              /\ Logged("INFO", "Loaded configuration")
              /\ Logged("WARN", "No enabled sources found in configuration")
        /\ pc \notin {"dispatch", "prereq_root", "prereq_tool", "load_config",
                      "select", "terminal"} => FALSE

\* C28: on a machine with no configuration file, an init invocation followed
\* by a normal run (destination root present, engine available, file not
\* edited in between) loads the written template successfully, finds no
\* enabled source, invokes the sync engine zero times and exits with code 0.
C28_InitThenRun == []C28_RunOnTemplate /\ [][C28_InitWrites]_vars

\* A normal run ended on the template of an earlier init invocation, on a
\* machine that had started without a configuration file.
C28_Witness ==
    /\ BackupRun
    /\ pc = "terminal"
    /\ TemplateFile(fs0)
    /\ fs0.root /\ rcloneInstalled
    /\ exitCode = 0
    /\ calls = <<>>
    /\ config = Template(host)

====
